---- MODULE Spec2Model ----
(***************************************************************************)
(* Face registration / recognition services of memorybook-ai-server:       *)
(*   face_api.py     : encodings.json store, strict register, multi-face   *)
(*                     recognize, batch recognize                          *)
(*   face_service.py : DeepFace variant (faces_db folder + faces_meta.json)*)
(*                                                                         *)
(* Numbers.  Face encodings are vectors of two coordinates, each 0.0 or    *)
(* 0.3, written in tenths (0, 3).  Every encoding comes from the           *)
(* extractor, which computes in single precision, so the float32 cast of   *)
(* face_api.py line 107 keeps each value.  A Euclidean distance d is       *)
(* carried                                                                 *)
(* as d*d in hundredths (an exact integer); the square is strictly         *)
(* increasing on d >= 0, so order, ties and minima are those of d.  A      *)
(* threshold t is carried in tenths and compared by d*d <= t*t.            *)
(***************************************************************************)
EXTENDS Integers, Sequences, FiniteSets, TLC

\* ---------------------------------------------------------------- bounds
MaxStore == 3      \* records in a store handed to the matcher
MaxThr   == 1      \* finite thresholds are 3*k tenths, k in 0..MaxThr
MaxFile  == 2      \* records appended to encodings.json
MaxBatch == 3      \* length of the enumerated short batch lists
NumProcs == 2      \* requests served at the same time (threadpool workers)

\* ------------------------------------------------------------- constants
DEFAULT_THRESHOLD == 6     \* 0.6 in tenths
SVC_THRESHOLD == 8         \* 0.8 in tenths
MAX_IMAGES == 8

\* a threshold of a request: a number of tenths, float('inf'), or omitted
Num(t) == [k |-> "num", v |-> t]
Inf    == [k |-> "inf", v |-> 0]
None   == [k |-> "none", v |-> 0]

\* ------------------------------------------------------------------ names
Whitespace == {" "}

ENCODINGS_BASENAME ==
  <<"e", "n", "c", "o", "d", "i", "n", "g", "s", ".", "j", "s", "o", "n">>

RECURSIVE LStrip(_)
LStrip(s) ==
  IF s = <<>> THEN s
  ELSE IF Head(s) \in Whitespace THEN LStrip(Tail(s)) ELSE s

RECURSIVE RStrip(_)
RStrip(s) ==
  IF s = <<>> THEN s
  ELSE IF s[Len(s)] \in Whitespace THEN RStrip(SubSeq(s, 1, Len(s) - 1)) ELSE s

\* str.strip()
Strip(s) == RStrip(LStrip(s))

\* names a client may send
ReqNames ==
  { <<>>, <<" ">>, <<"a">>, <<" ", "a", " ">>, <<"b">>, ENCODINGS_BASENAME }

StoredNames == { Strip(n) : n \in ReqNames }

\* ---------------------------------------------------------------- vectors
Coords == {0, 3}
Vecs   == { <<x, y>> : x \in Coords, y \in Coords }

Records == [name : StoredNames, encoding : Vecs]

\* numpy.linalg.norm(known - probe), squared
Dist2(a, b) == (a[1] - b[1]) * (a[1] - b[1]) + (a[2] - b[2]) * (a[2] - b[2])

\* face_recognition.face_distance(known_encodings, encoding)
FaceDistance(known, enc) == [i \in 1..Len(known) |-> Dist2(known[i], enc)]

\* dist <= threshold   (dist carried squared)
WithinThreshold(d2, threshold) ==
  IF threshold.k = "inf" THEN TRUE
  ELSE threshold.v >= 0 /\ d2 <= threshold.v * threshold.v

\* ---------------------------------------------------------------- matcher
IndexOfName(best, name) ==
  IF \E i \in 1..Len(best) : best[i].name = name
  THEN CHOOSE i \in 1..Len(best) : best[i].name = name
  ELSE 0

\* BestStep without the "dist < best_by_name[name]" update
BestStep_KeepFirst(best, name, dist, threshold) ==
  IF WithinThreshold(dist, threshold) /\ IndexOfName(best, name) = 0
  THEN Append(best, [name |-> name, distance |-> dist])
  ELSE best

\* one iteration of the loop of lines 116-120 on the insertion-ordered dict
BestStep(best, name, dist, threshold) ==
  IF WithinThreshold(dist, threshold)
  THEN LET k == IndexOfName(best, name) IN
       IF k = 0 THEN Append(best, [name |-> name, distance |-> dist])
       ELSE IF dist < best[k].distance
            THEN [best EXCEPT ![k].distance = dist]
            ELSE best
  ELSE best

RECURSIVE BestByName(_, _, _, _, _)
BestByName(records, distances, threshold, i, best) ==
  IF i > Len(records) THEN best
  ELSE BestByName(records, distances, threshold, i + 1,
                  BestStep(best, records[i].name, distances[i], threshold))

\* InsertSorted that puts m before the elements of equal key (not stable)
RECURSIVE InsertSorted_TiesFirst(_, _)
InsertSorted_TiesFirst(sorted, m) ==
  IF sorted = <<>> THEN <<m>>
  ELSE IF Head(sorted).distance < m.distance
       THEN <<Head(sorted)>> \o InsertSorted_TiesFirst(Tail(sorted), m)
       ELSE <<m>> \o sorted

\* insert m after every element whose key is <= m's key (stable)
RECURSIVE InsertSorted(_, _)
InsertSorted(sorted, m) ==
  IF sorted = <<>> THEN <<m>>
  ELSE IF Head(sorted).distance <= m.distance
       THEN <<Head(sorted)>> \o InsertSorted(Tail(sorted), m)
       ELSE <<m>> \o sorted

\* list.sort(key=distance): stable
RECURSIVE SortByDistance(_, _, _)
SortByDistance(ms, i, acc) ==
  IF i > Len(ms) THEN acc
  ELSE SortByDistance(ms, i + 1, InsertSorted(acc, ms[i]))

best_matches_for_encoding(encoding, records, threshold) ==
  IF records = <<>> THEN <<>>
  ELSE LET known     == [i \in 1..Len(records) |-> records[i].encoding]
           distances == FaceDistance(known, encoding)
           best      == BestByName(records, distances, threshold, 1, <<>>)
       IN  SortByDistance(best, 1, <<>>)

\* ------------------------------------------------------- matcher harness
VARIABLES mEnc, mRecords, mThr, mOut

matchVars == <<mEnc, mRecords, mThr, mOut>>

NotCalled == <<[name |-> <<"-">>, distance |-> -1]>>

RECURSIVE SeqsUpTo(_, _)
SeqsUpTo(S, n) ==
  IF n = 0 THEN {<<>>}
  ELSE LET shorter == SeqsUpTo(S, n - 1) IN
       shorter \cup { Append(q, x) : q \in {r \in shorter : Len(r) = n - 1}, x \in S }

MatchThresholds == { Num(3 * k) : k \in 0..MaxThr } \cup {Inf}

MatchIdle ==
  /\ mEnc = <<0, 0>>
  /\ mRecords = <<>>
  /\ mThr = Inf
  /\ mOut = NotCalled

MatchInputs ==
  /\ mEnc \in Vecs
  /\ mRecords \in SeqsUpTo(Records, MaxStore)
  /\ mThr \in MatchThresholds
  /\ mOut = NotCalled

MatchCall ==
  /\ mOut = NotCalled
  /\ mOut' = best_matches_for_encoding(mEnc, mRecords, mThr)
  /\ UNCHANGED <<mEnc, mRecords, mThr>>

\* ============================================================ face_api.py
VARIABLES file, imgDirs, resp

apiVars == <<file, imgDirs, resp>>

\* faces_db/encodings.json
Absent    == [exists |-> FALSE, parsable |-> FALSE, data |-> <<>>]
Truncated == [exists |-> TRUE, parsable |-> FALSE, data |-> <<>>]
Saved(records) == [exists |-> TRUE, parsable |-> TRUE, data |-> records]

load_encodings(f) ==
  IF ~f.exists THEN <<>>
  ELSE IF ~f.parsable THEN <<>>
  ELSE f.data

\* imageBase64 values: "", undecodable data, or an image with its faces
EmptyB64   == [kind |-> "empty", faces |-> <<>>]
BadB64     == [kind |-> "bad", faces |-> <<>>]
Img(faces) == [kind |-> "img", faces |-> faces]

\* detail of the HTTPException of decode_base64_image, "" when it returns
decode_base64_image(b64) ==
  IF b64.kind = "empty" THEN "Empty imageBase64"
  ELSE IF b64.kind = "bad" THEN "Invalid image data"
  ELSE ""

\* face_locations / face_encodings: one encoding per detected box
face_encodings(b64) == b64.faces

recognize_faces_in_image(b64, threshold, f) ==
  LET encs    == face_encodings(b64)
      records == load_encodings(f)
  IN  IF encs = <<>> THEN <<>>
      ELSE IF records = <<>> THEN <<>>
      ELSE [i \in 1..Len(encs) |->
              [faceIndex |-> i - 1,
               matches   |-> best_matches_for_encoding(encs[i], records, threshold)]]

\* req.threshold if req.threshold is not None else 0.6
EffectiveThreshold(t) == IF t.k = "none" THEN Num(DEFAULT_THRESHOLD) ELSE t

NoBody == [ok |-> FALSE]

Response(op, req, status, detail, body) ==
  [op |-> op, req |-> req, status |-> status, detail |-> detail, body |-> body]

NoResponse == Response("none", NoBody, 0, "", NoBody)

\* ---------------------------------------------------------- /faces/register
\* detail of the 400 raised before the store is touched, "" when none is
RegisterReject(req) ==
  LET bad == decode_base64_image(req.imageBase64) IN
  IF bad # "" THEN bad
  ELSE IF Len(req.imageBase64.faces) = 0 THEN "No face detected in image"
  ELSE IF Len(req.imageBase64.faces) # 1
       THEN "Please register with exactly ONE clear face (no group photo)."
  ELSE ""

NewRecord(req) ==
  [name |-> Strip(req.name), encoding |-> face_encodings(req.imageBase64)[1]]

\* os.makedirs(person_dir, exist_ok=True) raises FileExistsError when
\* faces_db/<name> exists and is a regular file: faces_db/encodings.json
MakedirsFails(person, f) == person = ENCODINGS_BASENAME /\ f.exists

CountName(records, name) ==
  Cardinality({ i \in 1..Len(records) : records[i].name = name })

RegisterOk(req, records) ==
  Response("register", req, 200, "",
           [ok |-> TRUE, name |-> Strip(req.name),
            encodingsCount |-> CountName(records, Strip(req.name))])

register_face(name, b64) ==
  LET req == [name |-> name, imageBase64 |-> b64]
      rej == RegisterReject(req)
  IN  IF rej # ""
      THEN /\ resp' = Response("register", req, 400, rej, NoBody)
           /\ UNCHANGED <<file, imgDirs>>
      ELSE LET records == Append(load_encodings(file), NewRecord(req)) IN
           /\ Len(records) <= MaxFile
           /\ file' = Saved(records)
           /\ IF MakedirsFails(Strip(name), file')
              THEN /\ resp' = Response("register", req, 500, "Internal Server Error", NoBody)
                   /\ UNCHANGED imgDirs
              ELSE /\ imgDirs' = imgDirs \cup {Strip(name)}
                   /\ resp' = RegisterOk(req, records)

\* --------------------------------------------------------- /faces/recognize
recognize_face(b64, t) ==
  LET req == [imageBase64 |-> b64, threshold |-> t]
      bad == decode_base64_image(b64)
  IN  /\ resp' = IF bad # ""
                 THEN Response("recognize", req, 400, bad, NoBody)
                 ELSE Response("recognize", req, 200, "",
                        [ok |-> TRUE,
                         faces |-> recognize_faces_in_image(b64, EffectiveThreshold(t), file)])
      /\ UNCHANGED <<file, imgDirs>>

\* --------------------------------------------------- /faces/recognize_batch
\* [x for x in lst if x]
RECURSIVE NonEmptyItems(_)
NonEmptyItems(lst) ==
  IF lst = <<>> THEN <<>>
  ELSE IF Head(lst).kind = "empty" THEN NonEmptyItems(Tail(lst))
  ELSE <<Head(lst)>> \o NonEmptyItems(Tail(lst))

\* lst[:n]
Take(lst, n) == SubSeq(lst, 1, IF Len(lst) < n THEN Len(lst) ELSE n)

AcceptedImages(lst) == Take(NonEmptyItems(lst), MAX_IMAGES)

\* body of the for loop of lines 202-209
BatchItem(idx, b64, threshold, f) ==
  IF decode_base64_image(b64) # ""
  THEN [index |-> idx, faces |-> <<>>]
  ELSE [index |-> idx, faces |-> recognize_faces_in_image(b64, threshold, f)]

recognize_face_batch(lst, t) ==
  LET req    == [imageBase64List |-> lst, threshold |-> t]
      images == AcceptedImages(lst)
      results == [i \in 1..Len(images) |->
                    BatchItem(i - 1, images[i], EffectiveThreshold(t), file)]
  IN  /\ resp' = Response("recognize_batch", req, 200, "",
                    [ok |-> TRUE, count |-> Len(images), results |-> results])
      /\ UNCHANGED <<file, imgDirs>>

\* ------------------------------------------------------------ request sets
Thresholds == {None, Inf, Num(0)}

RegImages   == {EmptyB64, BadB64, Img(<<>>), Img(<<<<0, 0>>>>), Img(<<<<3, 0>>>>),
                Img(<<<<0, 0>>, <<3, 0>>>>)}
RecogImages == {EmptyB64, BadB64, Img(<<>>), Img(<<<<0, 0>>>>), Img(<<<<3, 3>>>>),
                Img(<<<<0, 3>>, <<3, 0>>>>)}
BatchPalette == {EmptyB64, BadB64, Img(<<>>), Img(<<<<0, 0>>>>)}

\* MAX_IMAGES copies of x followed by y
LongList(x, y) == [i \in 1..(MAX_IMAGES + 1) |-> IF i <= MAX_IMAGES THEN x ELSE y]

BatchLists ==
  SeqsUpTo(BatchPalette, MaxBatch)
    \cup { LongList(x, Img(<<<<0, 0>>>>)) : x \in BatchPalette }

ApiIdle ==
  /\ file = Absent
  /\ imgDirs = {}
  /\ resp = NoResponse

Register  == \E name \in ReqNames, b64 \in RegImages : register_face(name, b64)
Recognize == \E b64 \in RecogImages, t \in Thresholds : recognize_face(b64, t)
RecognizeBatch == \E lst \in BatchLists : recognize_face_batch(lst, None)

\* =============================== face_api.py, requests served concurrently
\* FastAPI runs "def" endpoints in a threadpool; a step is the code between
\* two accesses to faces_db.
VARIABLES pc, preq, precs, presp

concVars == <<pc, preq, precs, presp>>

Procs == 1..NumProcs

ConcNames  == { <<"a">>, <<"b">> }
ConcImages == { Img(<<>>), Img(<<<<0, 0>>>>) }

ConcIdle ==
  /\ pc = [p \in Procs |-> "idle"]
  /\ preq = [p \in Procs |-> NoBody]
  /\ precs = [p \in Procs |-> <<>>]
  /\ presp = [p \in Procs |-> NoResponse]

\* lines 149-172: decode, detect, encode, load_encodings(), records.append
RegStart(p) ==
  \E name \in ConcNames, b64 \in ConcImages :
    LET req == [name |-> name, imageBase64 |-> b64]
        rej == RegisterReject(req)
    IN  /\ pc[p] = "idle"
        /\ IF rej # ""
           THEN /\ presp' = [presp EXCEPT ![p] = Response("register", req, 400, rej, NoBody)]
                /\ UNCHANGED <<pc, preq, precs>>
           ELSE LET records == Append(load_encodings(file), NewRecord(req)) IN
                /\ Len(records) <= MaxFile
                /\ pc' = [pc EXCEPT ![p] = "save_open"]
                /\ preq' = [preq EXCEPT ![p] = req]
                /\ precs' = [precs EXCEPT ![p] = records]
                /\ UNCHANGED presp
        /\ UNCHANGED <<file, imgDirs>>

\* line 99: open(ENCODINGS_FILE, "w") truncates the file
RegOpen(p) ==
  /\ pc[p] = "save_open"
  /\ file' = Truncated
  /\ pc' = [pc EXCEPT ![p] = "save_write"]
  /\ UNCHANGED <<imgDirs, preq, precs, presp>>

\* line 100: json.dump and close put the whole list on disk
RegWrite(p) ==
  /\ pc[p] = "save_write"
  /\ file' = Saved(precs[p])
  /\ pc' = [pc EXCEPT ![p] = "save_image"]
  /\ UNCHANGED <<imgDirs, preq, precs, presp>>

\* lines 176-183: person directory, JPEG, count, response
RegImage(p) ==
  /\ pc[p] = "save_image"
  /\ IF MakedirsFails(Strip(preq[p].name), file)
     THEN /\ presp' = [presp EXCEPT ![p] =
                 Response("register", preq[p], 500, "Internal Server Error", NoBody)]
          /\ UNCHANGED imgDirs
     ELSE /\ imgDirs' = imgDirs \cup {Strip(preq[p].name)}
          /\ presp' = [presp EXCEPT ![p] = RegisterOk(preq[p], precs[p])]
  /\ pc' = [pc EXCEPT ![p] = "idle"]
  /\ UNCHANGED <<file, preq, precs>>

\* recognize_face: one load_encodings() per call
RecognizeC(p) ==
  \E b64 \in {Img(<<<<0, 0>>>>)}, t \in {Inf} :
    LET req == [imageBase64 |-> b64, threshold |-> t]
        bad == decode_base64_image(b64)
    IN  /\ pc[p] = "idle"
        /\ presp' = [presp EXCEPT ![p] =
             IF bad # ""
             THEN Response("recognize", req, 400, bad, NoBody)
             ELSE Response("recognize", req, 200, "",
                    [ok |-> TRUE,
                     faces |-> recognize_faces_in_image(b64, EffectiveThreshold(t), file)])]
        /\ UNCHANGED <<file, imgDirs, pc, preq, precs>>

\* ======================================================== face_service.py
\* DeepFace.find is an external call: its distance between two images is
\* taken to be a fixed function of the two (Dist2 of the embeddings the
\* images carry), and its behaviour on a database without any image file
\* (raise, or no rows) differs between releases and is chosen per call.
VARIABLES svcDirs, svcFiles, svcMeta, svcResp

svcVars == <<svcDirs, svcFiles, svcMeta, svcResp>>

PersonIds == {"p1", "p2"}
SvcNames  == {"ann"}
SvcVecs   == { <<0, 0>>, <<3, 3>> }
SvcB64s   == {EmptyB64, BadB64} \cup { Img(<<v>>) : v \in SvcVecs }
SvcPalette == {EmptyB64, BadB64, Img(<<<<0, 0>>>>)}
SvcLists ==
  SeqsUpTo(SvcPalette, MaxBatch - 1)
    \cup { LongList(x, Img(<<<<0, 0>>>>)) : x \in SvcPalette }

NoName == "<none>"
NoError == "<no error key>"

SvcIdle ==
  /\ svcDirs = {}
  /\ svcFiles = {}
  /\ svcMeta = [p \in PersonIds |-> NoName]
  /\ svcResp = NoResponse

\* save_base64_image raises on "" and on undecodable data
SaveImageFails(b64) == b64.kind # "img"

\* meta.get(person_id, person_id)
MetaName(meta, pid) == IF meta[pid] = NoName THEN pid ELSE meta[pid]

\* rows of dfs[0]: one per image file under faces_db
FindRows(b64, files) ==
  { [personId |-> f.personId, distance |-> Dist2(f.vec, b64.faces[1])] : f \in files }

\* df.sort_values(by="distance").iloc[0]
BestRow(rows) ==
  CHOOSE r \in rows : \A q \in rows : r.distance <= q.distance

\* the list deepface_find_best returns
deepface_find_best(b64, threshold, files, meta) ==
  LET rows == FindRows(b64, files) IN
  IF rows = {} THEN <<>>
  ELSE LET best == BestRow(rows) IN
       IF ~WithinThreshold(best.distance, threshold) THEN <<>>
       ELSE << [personId |-> best.personId,
                name     |-> MetaName(meta, best.personId),
                distance |-> best.distance] >>

svc_register_face(pid, name, b64) ==
  LET req == [personId |-> pid, name |-> name, imageBase64 |-> b64] IN
  /\ svcDirs' = svcDirs \cup {pid}
  /\ IF SaveImageFails(b64)
     THEN /\ svcResp' = Response("register", req, 500, "Internal Server Error", NoBody)
          /\ UNCHANGED <<svcFiles, svcMeta>>
     ELSE /\ svcFiles' = svcFiles \cup {[personId |-> pid, vec |-> b64.faces[1]]}
          /\ svcMeta' = [svcMeta EXCEPT ![pid] = name]
          /\ svcResp' = Response("register", req, 200, "",
                           [ok |-> TRUE, personId |-> pid, name |-> name])

svc_recognize_face(b64, findRaises) ==
  LET req == [imageBase64 |-> b64] IN
  /\ svcResp' =
       IF svcDirs = {}
       THEN Response("recognize", req, 200, "", [matches |-> <<>>])
       ELSE IF SaveImageFails(b64) \/ (svcFiles = {} /\ findRaises)
       THEN Response("recognize", req, 500, "Internal Server Error", NoBody)
       ELSE Response("recognize", req, 200, "",
              [matches |-> deepface_find_best(b64, Num(SVC_THRESHOLD), svcFiles, svcMeta)])
  /\ UNCHANGED <<svcDirs, svcFiles, svcMeta>>

\* float(req.threshold) if req.threshold is not None else 0.8
SvcThreshold(t) == IF t.k = "none" THEN Num(SVC_THRESHOLD) ELSE t

\* body of the for loop of lines 165-175
SvcBatchItem(idx, b64, threshold, findRaises) ==
  IF SaveImageFails(b64) \/ (svcFiles = {} /\ findRaises)
  THEN [index |-> idx, matches |-> <<>>, error |-> "str(e)"]
  ELSE [index |-> idx,
        matches |-> deepface_find_best(b64, threshold, svcFiles, svcMeta),
        error |-> NoError]

svc_recognize_face_batch(lst, t, findRaises) ==
  LET req  == [imageBase64List |-> lst, threshold |-> t]
      imgs == AcceptedImages(lst)
  IN  /\ svcResp' =
           IF svcDirs = {}
           THEN Response("recognize_batch", req, 200, "",
                         [ok |-> TRUE, count |-> 0, results |-> <<>>])
           ELSE Response("recognize_batch", req, 200, "",
                  [ok |-> TRUE, count |-> Len(imgs),
                   results |-> [i \in 1..Len(imgs) |->
                      SvcBatchItem(i - 1, imgs[i], SvcThreshold(t), findRaises)]])
      /\ UNCHANGED <<svcDirs, svcFiles, svcMeta>>

SvcRegister ==
  \E pid \in PersonIds, name \in SvcNames, b64 \in SvcB64s :
    svc_register_face(pid, name, b64)
FindOutcomes == IF svcFiles = {} THEN BOOLEAN ELSE {FALSE}

SvcRecognize ==
  \E b64 \in SvcB64s, findRaises \in FindOutcomes : svc_recognize_face(b64, findRaises)
SvcRecognizeBatch ==
  \E lst \in SvcLists, t \in {None, Num(0)}, findRaises \in FindOutcomes :
    svc_recognize_face_batch(lst, t, findRaises)

\* ========================================================= specifications
vars == <<mEnc, mRecords, mThr, mOut, file, imgDirs, resp,
          pc, preq, precs, presp, svcDirs, svcFiles, svcMeta, svcResp>>

\* the face_api service, one request at a time
Init == MatchIdle /\ ApiIdle /\ ConcIdle /\ SvcIdle
Next ==
  \/ Register /\ UNCHANGED <<matchVars, concVars, svcVars>>
  \/ Recognize /\ UNCHANGED <<matchVars, concVars, svcVars>>
  \/ RecognizeBatch /\ UNCHANGED <<matchVars, concVars, svcVars>>
Spec == Init /\ [][Next]_vars

\* the face_api service, NumProcs requests at a time
ConcNext ==
  \/ (\E p \in Procs : RegStart(p)) /\ UNCHANGED <<matchVars, resp, svcVars>>
  \/ (\E p \in Procs : RegOpen(p)) /\ UNCHANGED <<matchVars, resp, svcVars>>
  \/ (\E p \in Procs : RegWrite(p)) /\ UNCHANGED <<matchVars, resp, svcVars>>
  \/ (\E p \in Procs : RegImage(p)) /\ UNCHANGED <<matchVars, resp, svcVars>>
  \/ (\E p \in Procs : RecognizeC(p)) /\ UNCHANGED <<matchVars, resp, svcVars>>
ConcSpec == Init /\ [][ConcNext]_vars

\* the face_service service, one request at a time
SvcNext ==
  \/ SvcRegister /\ UNCHANGED <<matchVars, apiVars, concVars>>
  \/ SvcRecognize /\ UNCHANGED <<matchVars, apiVars, concVars>>
  \/ SvcRecognizeBatch /\ UNCHANGED <<matchVars, apiVars, concVars>>
SvcSpec == Init /\ [][SvcNext]_vars

\* the matcher on every input within the bounds
MatchInit == MatchInputs /\ ApiIdle /\ ConcIdle /\ SvcIdle
MatchNext == MatchCall /\ UNCHANGED <<apiVars, concVars, svcVars>>
MatchSpec == MatchInit /\ [][MatchNext]_vars

\* ================================================================= claims
MatchCalled == mOut # NotCalled

RecordsOf(records, name) == { i \in 1..Len(records) : records[i].name = name }
NamesIn(records) == { records[i].name : i \in 1..Len(records) }
SetMin(S) == CHOOSE x \in S : \A y \in S : x <= y

\* positions of the records of a name that lie within the threshold
WithinOf(records, enc, threshold, name) ==
  { i \in RecordsOf(records, name) :
      WithinThreshold(Dist2(records[i].encoding, enc), threshold) }

SortedByDistance(ms) ==
  \A i \in 1..Len(ms) : \A j \in 1..Len(ms) :
    i < j => ms[i].distance <= ms[j].distance

\* C1: with threshold +infinity the matcher returns exactly one Match per
\* distinct name of the store, and its distance is the minimum distance
\* between the probe and that name's vectors.
C1_DedupMinimum ==
  (MatchCalled /\ mThr = Inf) =>
    /\ \A i \in 1..Len(mOut) : mOut[i].name \in NamesIn(mRecords)
    /\ \A n \in NamesIn(mRecords) :
         /\ Cardinality({ i \in 1..Len(mOut) : mOut[i].name = n }) = 1
         /\ \A i \in 1..Len(mOut) :
              mOut[i].name = n =>
                mOut[i].distance =
                  SetMin({ Dist2(mRecords[k].encoding, mEnc) : k \in RecordsOf(mRecords, n) })

\* a name with a later, strictly closer vector, next to a second name
C1_Witness ==
  /\ MatchCalled /\ mThr = Inf
  /\ Cardinality(NamesIn(mRecords)) >= 2
  /\ \E i \in 1..Len(mRecords) : \E j \in 1..Len(mRecords) :
       /\ i < j
       /\ mRecords[i].name = mRecords[j].name
       /\ Dist2(mRecords[j].encoding, mEnc) < Dist2(mRecords[i].encoding, mEnc)

\* C7 (as stated): the result is sorted by distance and names of equal
\* distance appear in the order of their earliest record in the store,
\* whichever of their records lie within the threshold.
C7_TiesByFirstRegistration ==
  MatchCalled =>
    /\ SortedByDistance(mOut)
    /\ \A i \in 1..Len(mOut) : \A j \in 1..Len(mOut) :
         (i < j /\ mOut[i].distance = mOut[j].distance) =>
           SetMin(RecordsOf(mRecords, mOut[i].name))
             < SetMin(RecordsOf(mRecords, mOut[j].name))

\* C7 (amended): the result is sorted by distance and names of equal
\* distance appear in the order of their earliest record that lies within
\* the threshold.
C7_TiesByFirstWithinThreshold ==
  MatchCalled =>
    /\ SortedByDistance(mOut)
    /\ \A i \in 1..Len(mOut) : \A j \in 1..Len(mOut) :
         (i < j /\ mOut[i].distance = mOut[j].distance) =>
           /\ WithinOf(mRecords, mEnc, mThr, mOut[i].name) # {}
           /\ WithinOf(mRecords, mEnc, mThr, mOut[j].name) # {}
           /\ SetMin(WithinOf(mRecords, mEnc, mThr, mOut[i].name))
                < SetMin(WithinOf(mRecords, mEnc, mThr, mOut[j].name))

\* two names tie, and the one registered first comes second because its
\* earliest record is beyond the threshold
C7_Witness ==
  /\ MatchCalled
  /\ \E i \in 1..Len(mOut) : \E j \in 1..Len(mOut) :
       /\ i < j
       /\ mOut[i].distance = mOut[j].distance
       /\ SetMin(RecordsOf(mRecords, mOut[j].name))
            < SetMin(RecordsOf(mRecords, mOut[i].name))

\* a step of Spec that served /faces/register
RegisterStep == resp'.op = "register" /\ (resp' # resp \/ file' # file)

DetectedFaces(r) == Len(r.req.imageBase64.faces)
Decodable(r) == r.req.imageBase64.kind = "img"

\* C2: registering an image without a face fails with the "no face" error
\* and leaves the store alone; with two or more faces it fails with the
\* distinct "multiple faces" error and leaves the store alone; with exactly
\* one face it succeeds, the records of the trimmed name grow by one and
\* encodingsCount is their new number.
C2_RegisterByFaceCount ==
  [][ (RegisterStep /\ Decodable(resp')) =>
        LET n    == DetectedFaces(resp')
            name == Strip(resp'.req.name)
        IN  /\ n = 0 =>
                 /\ resp'.status = 400
                 /\ resp'.detail = "No face detected in image"
                 /\ file' = file
            /\ n >= 2 =>
                 /\ resp'.status = 400
                 /\ resp'.detail # "No face detected in image"
                 /\ file' = file
            /\ n = 1 =>
                 /\ resp'.status = 200
                 /\ CountName(load_encodings(file'), name)
                      = CountName(load_encodings(file), name) + 1
                 /\ resp'.body.encodingsCount = CountName(load_encodings(file'), name)
    ]_vars

\* the 0-based positions, in the submitted list, of the accepted images
RECURSIVE SubmittedPositions(_, _)
SubmittedPositions(lst, i) ==
  IF i > Len(lst) THEN <<>>
  ELSE IF lst[i].kind = "empty" THEN SubmittedPositions(lst, i + 1)
  ELSE <<i - 1>> \o SubmittedPositions(lst, i + 1)

AcceptedPositions(lst) == Take(SubmittedPositions(lst, 1), MAX_IMAGES)

\* C3: a batch response has count = number of results = number of accepted
\* images (at most 8), and the results come in input order, each tagged with
\* the index its image had in the submitted list.
C3_BatchCountAndIndex ==
  svcResp.op = "recognize_batch" =>
    LET lst == svcResp.req.imageBase64List
        pos == AcceptedPositions(lst)
    IN  /\ svcResp.body.count = Len(svcResp.body.results)
        /\ svcResp.body.count = Len(pos)
        /\ svcResp.body.count <= MAX_IMAGES
        /\ \A k \in 1..Len(svcResp.body.results) :
             k <= Len(pos) /\ svcResp.body.results[k].index = pos[k]

\* C4: in a batch, an image that fails gets, at its index only, an empty
\* face list with an error indicator that tells it from a successful result
\* without faces; every other index holds the result of its own image; the
\* batch answers ok.
C4_BatchFailureMarked ==
  resp.op = "recognize_batch" =>
    LET images == AcceptedImages(resp.req.imageBase64List)
        thr    == EffectiveThreshold(resp.req.threshold)
    IN  /\ resp.status = 200 /\ resp.body.ok
        /\ Len(resp.body.results) = Len(images)
        /\ \A k \in 1..Len(images) :
             IF decode_base64_image(images[k]) # ""
             THEN /\ resp.body.results[k].faces = <<>>
                  /\ resp.body.results[k] # BatchItem(k - 1, Img(<<>>), thr, file)
             ELSE resp.body.results[k] = BatchItem(k - 1, images[k], thr, file)

\* C5: recognizing a decoded image answers ok with one FaceMatches entry per
\* detected face, in detection order, faceIndex 0..n-1, for every store
\* (the empty one included) and also when nothing matches.
C5_OneEntryPerFace ==
  (resp.op = "recognize" /\ Decodable(resp)) =>
    LET encs == face_encodings(resp.req.imageBase64)
        thr  == EffectiveThreshold(resp.req.threshold)
    IN  /\ resp.status = 200 /\ resp.body.ok
        /\ Len(resp.body.faces) = Len(encs)
        /\ \A i \in 1..Len(resp.body.faces) :
             /\ resp.body.faces[i].faceIndex = i - 1
             /\ resp.body.faces[i].matches
                  = best_matches_for_encoding(encs[i], load_encodings(file), thr)

\* C6: the load-modify-save cycle is exclusive, so that once every request
\* has returned, the persisted store holds the record of every registration
\* that returned success.
C6_NoLostAppend ==
  (\A p \in Procs : pc[p] = "idle") =>
    \A p \in Procs :
      (presp[p].op = "register" /\ presp[p].status = 200) =>
        \E i \in 1..Len(load_encodings(file)) :
          load_encodings(file)[i] = NewRecord(presp[p].req)

\* C8: a registration whose name is empty after trimming is rejected with a
\* validation error and writes nothing; every stored record has a
\* non-empty, trimmed name.
C8_EmptyNameRejected ==
  [][ /\ (RegisterStep /\ Strip(resp'.req.name) = <<>>) =>
           (resp'.status = 400 /\ file' = file)
      /\ \A i \in 1..Len(load_encodings(file')) :
           LET name == load_encodings(file')[i].name IN
           name # <<>> /\ Strip(name) = name
    ]_vars

\* C9: a failure while persisting the source image does not change the
\* outcome: a registration that appended its record reports success, and
\* one that reports failure has not changed the store.
C9_ImageSaveHarmless ==
  [][ RegisterStep =>
        /\ file' # file => resp'.status = 200
        /\ resp'.status # 200 => file' = file
    ]_vars

\* C10: the persisted store is append-only: only a registration writes it,
\* each registration replaces the contents it finds by those contents
\* followed by its one new record, and no persisted record is removed.
C10_AppendOnly ==
  [][ \A p \in Procs :
        /\ (pc[p] = "save_open" /\ pc'[p] = "save_write") =>
             precs[p] = Append(load_encodings(file), NewRecord(preq[p]))
        /\ (pc[p] = "save_write" /\ pc'[p] = "save_image") =>
             file' = Saved(precs[p])
        /\ (\A q \in Procs : pc'[q] = pc[q]) => file' = file
    ]_vars

====
